---- MODULE Spec2Model ----
(***************************************************************************)
(* Model of the multi-check directive (src/unnamed/part_000): the link     *)
(* function, its two watch listeners and its click listener, together with *)
(* the host page that owns the two bound collections.                      *)
(*                                                                         *)
(* Environment.  The host replaces a bound collection by a fresh array     *)
(* (or, for `available`, by a non-array) and the framework then calls the  *)
(* matching watch listener with (current, previous).  The watches are      *)
(* reference watches (third argument false), so a push or splice on the    *)
(* bound array itself calls no listener.  Listeners run to completion      *)
(* before the next user event.  The first call of a listener carries no    *)
(* previous value.  After a successful link the host keeps `selected` an   *)
(* array.                                                                  *)
(*                                                                         *)
(* The module also models the loader calls of the plugin list controller   *)
(* (src/src/workbench/controllers/plugin-list.js): fetchPluginList and     *)
(* _togglePluginState, each request a promise that the REST client settles *)
(* and whose callbacks then run.                                           *)
(***************************************************************************)
EXTENDS Integers, Sequences, FiniteSets, TLC

\* ------------------------------------------------------------------ bounds
\* Cap on the length of scope.selected (push has no cap in the code).
MaxSelLen == 3
\* Cap on the number of requests the controller issues.
MaxRequests == 3

\* ------------------------------------------------------------ value universe
Values == {"a", "b"}

\* Display text the host gives an explicit {nodeValue, displayText} pair.
DisplayTextOf(v) == IF v = "a" THEN "A" ELSE "B"

\* An item of `available`: a bare string (`string` holds it), or an explicit
\* pair (`nodeValue` and `displayText` hold it); the unused fields are "".
StringItem(v) == [kind |-> "string", string |-> v, nodeValue |-> "", displayText |-> ""]
ObjectItem(v) ==
    [kind |-> "object", string |-> "", nodeValue |-> v, displayText |-> DisplayTextOf(v)]
Items == {StringItem(v) : v \in Values} \cup {ObjectItem(v) : v \in Values}
\* The value an item stands for.
ItemValue(item) == IF item.kind = "object" THEN item.nodeValue ELSE item.string

\* A bound value: an array with its elements, or something that is no array.
Arr(s) == [isArray |-> TRUE, elems |-> s]
Undefined == [isArray |-> FALSE, elems |-> <<>>]

SeqsUpTo(S, n) == UNION {[1..k -> S] : k \in 0..n}
NoDuplicates(s) == \A i, j \in DOMAIN s : i # j => s[i] # s[j]

\* Catalogs the host supplies: item values unique within one catalog, so no
\* catalog is longer than there are values.
MaxRows == Cardinality(Values)
Catalogs == {c \in SeqsUpTo(Items, MaxRows) :
               \A i, j \in DOMAIN c : i # j => ItemValue(c[i]) # ItemValue(c[j])}
\* Selections the host supplies: duplicate free, values possibly stale.
HostSelections == {s \in SeqsUpTo(Values, MaxRows) : NoDuplicates(s)}

\* ------------------------------------------------------------------- state
VARIABLES
    selected,       \* scope.selected
    selectedRef,    \* which array scope.selected holds (its identity)
    available,      \* scope.available
    linkResult,     \* what link returned: "pending" before the call
    watchers,       \* expressions watched, in registration order
    clickListener,  \* the click listener is attached to the UL
    children,       \* listElement.children: the LI rows
    selLast,        \* the `selected` watch's last seen value
    avLast,         \* the `available` watch's last seen value
    selDirty,       \* the `selected` listener is due
    avDirty,        \* the `available` listener is due
    last,           \* history: the last operation, its inputs and pre-state
    expected,       \* history: per row, the mark the last pass or toggle set
    reconciled,     \* history: the `available` listener has run
    ex,             \* history: progress through the worked example
    tracking        \* history: only row clicks since a rebuild in step with
                    \* a duplicate free selection of catalog values

\* The plugin list controller.
VARIABLES
    requests,          \* the promises restClient.get / restClient.patch returned
    stepsAnnounced,    \* loader steps announced by viewFrame.setLoaderSteps
    loaderIncrements,  \* calls of viewFrame.incrementLoader
    pluginListLen,     \* scope.pluginList.length
    ctlLast            \* history: the last call of the controller

widgetVars == <<selected, selectedRef, available, linkResult, watchers, clickListener,
                children, selLast, avLast, selDirty, avDirty, last, expected,
                reconciled, ex, tracking>>
ctlVars == <<requests, stepsAnnounced, loaderIncrements, pluginListLen, ctlLast>>
vars == <<widgetVars, ctlVars>>

\* ----------------------------------------------------------- array helpers
\* Array.prototype.indexOf: 0-based position of the first match, else -1.
IndexOf(s, x) ==
    IF \E i \in DOMAIN s : s[i] = x
    THEN (CHOOSE i \in DOMAIN s : s[i] = x /\ \A j \in 1..(i - 1) : s[j] # x) - 1
    ELSE -1

\* Mutant of Push: the value goes to the front (unshift).
PushFront(s, x) == <<x>> \o s

\* Array.prototype.push.
Push(s, x) == Append(s, x)

\* Array.prototype.splice(position, 1), position 0-based and >= 0.
Splice1(s, position) ==
    IF position < Len(s)
    THEN SubSeq(s, 1, position) \o SubSeq(s, position + 2, Len(s))
    ELSE s

\* ------------------------------------------------------------ the directive
\* isObject of lib/core-toolkit.js: an explicit pair is an object, a bare
\* string is not.
isObject(item) == item.kind = "object"

\* randomHex of lib/core-toolkit.js: an opaque identifier, distinct for the
\* rows of one pass; n is the number of rows the pass has created so far.
randomHex(n) == n + 1

\* li.dataset.identifier of a row.  attachItemElements sets the property
\* `identifier` of the LI (line 54), never its data attribute, so the data
\* attribute reads as undefined.
DatasetIdentifier(li) == "undefined"

\* The names a for...in loop over listElement.children visits: the index
\* keys "0", "1", ... and then the collection's own enumerable members.
ForInKeys(listElement) ==
    [i \in 1..Len(listElement) |-> ToString(i - 1)] \o <<"length", "item", "namedItem">>

\* child.dataset where child is one of those names, a string primitive.
StringDataset(child) == "undefined"

\* The loop of findItemIndex (lines 27-33).  Reading .identifier of an
\* undefined dataset throws a TypeError.
RECURSIVE ScanChildren(_, _, _)
ScanChildren(keys, identifier, index) ==
    IF keys = <<>> THEN [threw |-> FALSE, index |-> index]
    ELSE IF StringDataset(Head(keys)) = "undefined"
         THEN [threw |-> TRUE, index |-> index]
         ELSE ScanChildren(Tail(keys), identifier, index + 1)

\* findItemIndex(listElement, inputElement), the input being that of `row`.
findItemIndex(listElement, row) ==
    ScanChildren(ForInKeys(listElement), DatasetIdentifier(listElement[row]), 0)

\* Mutant of AttachOne: the new row is put first (prepend for appendChild).
AttachOneFirst(listElement, item, sel) ==
    LET nodeValue == IF item.kind = "object" THEN item.nodeValue ELSE item.string
        displayText == IF item.kind = "object" THEN item.displayText ELSE item.string
    IN  <<[identifier |-> Len(listElement) + 1,
           value      |-> nodeValue,
           checked    |-> \E k \in DOMAIN sel : sel[k] = nodeValue,
           label      |-> displayText]>> \o listElement

\* Mutant of AttachOne: the membership test is `> 0` for `>= 0`.
AttachOneIndexPositive(listElement, item, sel) ==
    LET nodeValue == IF item.kind = "object" THEN item.nodeValue ELSE item.string
        displayText == IF item.kind = "object" THEN item.displayText ELSE item.string
    IN  Append(listElement,
               [identifier |-> Len(listElement) + 1,
                value      |-> nodeValue,
                checked    |-> IndexOf(sel, nodeValue) > 0,
                label      |-> displayText])

\* One pass of the loop of attachItemElements (lines 48-67).
AttachOne(listElement, item, sel) ==
    LET pair == IF isObject(item)
                THEN [nodeValue |-> item.nodeValue, displayText |-> item.displayText]
                ELSE [nodeValue |-> item.string, displayText |-> item.string]
    IN  Append(listElement,
               [identifier |-> randomHex(Len(listElement)),
                value      |-> pair.nodeValue,
                checked    |-> IndexOf(sel, pair.nodeValue) >= 0,
                label      |-> pair.displayText])

\* attachItemElements(listElement, available, selected).
RECURSIVE attachItemElements(_, _, _)
attachItemElements(listElement, avail, sel) ==
    IF avail = <<>> THEN listElement
    ELSE attachItemElements(AttachOne(listElement, Head(avail), sel), Tail(avail), sel)

\* Mutant of clearItemElements: an `if` for the `while`, one child removed.
ClearLastOnly(listElement) ==
    IF listElement = <<>> THEN listElement
    ELSE SubSeq(listElement, 1, Len(listElement) - 1)

\* clearItemElements(listElement): removes the last child until none is left.
RECURSIVE clearItemElements(_)
clearItemElements(listElement) ==
    IF listElement = <<>> THEN listElement
    ELSE clearItemElements(SubSeq(listElement, 1, Len(listElement) - 1))

\* Mutant of checkSelectedItems: the rows that are not selected are removed.
KeepSelectedRows(listElement, sel) ==
    SelectSeq([i \in DOMAIN listElement |->
                  [listElement[i] EXCEPT !.checked = TRUE]],
              LAMBDA li : \E k \in DOMAIN sel : sel[k] = li.value)

\* checkSelectedItems(listElement, selected): sets the mark of every row
\* whose value is in `selected`; it assigns no other mark.
checkSelectedItems(listElement, sel) ==
    [i \in DOMAIN listElement |->
        IF IndexOf(sel, listElement[i].value) >= 0
        THEN [listElement[i] EXCEPT !.checked = TRUE]
        ELSE listElement[i]]

\* Mutant of BindingsAreArrays: one array is enough.
EitherBindingIsArray(sel, avail) == sel.isArray \/ avail.isArray

\* The guard of link (line 120).
BindingsAreArrays(sel, avail) == sel.isArray /\ avail.isArray

\* Mutant of LengthChanged: the contents are compared, not the lengths.
ContentChanged(current, previous) ==
    ~previous.isArray \/ current.elems # previous.elems

\* The test of both listeners: no previous array, or another length.
LengthChanged(current, previous) ==
    ~previous.isArray \/ Len(current.elems) # Len(previous.elems)

\* onSelectedListUpdated(current, previous): the rows afterwards.
onSelectedListUpdated(listElement, current, previous) ==
    IF LengthChanged(current, previous)
    THEN checkSelectedItems(listElement, current.elems)
    ELSE listElement

\* Mutant of onAvailableListUpdated: the rows are cleared only for a rebuild.
ClearOnlyToRebuild(listElement, current, previous, sel) ==
    IF ~current.isArray \/ Len(current.elems) = 0 THEN listElement
    ELSE IF ~previous.isArray \/ Len(current.elems) # Len(previous.elems)
         THEN attachItemElements(<<>>, current.elems, sel.elems)
         ELSE listElement

\* onAvailableListUpdated(current, previous): the rows afterwards.
onAvailableListUpdated(listElement, current, previous, sel) ==
    LET cleared == clearItemElements(listElement)
    IN  IF ~current.isArray \/ Len(current.elems) = 0 THEN cleared
        ELSE IF LengthChanged(current, previous)
             THEN attachItemElements(cleared, current.elems, sel.elems)
             ELSE cleared

\* onAvailableListUpdated(current, previous): what it returns.  The rebuild
\* returns items.length >= 1, items being what attachItemElements returns,
\* its argument `available`.
onAvailableListUpdatedReturn(current, previous) ==
    IF ~current.isArray \/ Len(current.elems) = 0 THEN "false"
    ELSE IF LengthChanged(current, previous)
         THEN (IF Len(current.elems) >= 1 THEN "true" ELSE "false")
         ELSE "false"

\* The target of a click on a row: its checkbox (nodeName "INPUT"), or the LI
\* or LABEL around it, whose checked and value the listener never reads.
RowTarget(listElement, row, nodeName) ==
    [nodeName |-> nodeName,
     type     |-> IF nodeName = "INPUT" THEN "checkbox" ELSE "",
     checked  |-> listElement[row].checked,
     value    |-> listElement[row].value,
     row      |-> row]

\* Mutant of BoundArrayAfterClick: the listener binds a fresh array.
FreshArray(ref) == 1 - ref

\* The array scope.selected holds after the click listener: push and splice
\* change the array in place and the listener never assigns scope.selected.
BoundArrayAfterClick(ref) == ref

\* Mutant of WatchDirty: a deep watch (third argument true).
DeepWatchDirty(oldRef, newRef, oldElems, newElems) ==
    oldRef # newRef \/ oldElems # newElems

\* scope.$watch('selected', listener, false): the listener is due when the
\* watched expression yields another array, whatever the contents.
WatchDirty(oldRef, newRef, oldElems, newElems) == oldRef # newRef

\* The click listener (lines 153-166): scope.selected afterwards.  `target`
\* is event.target, target.row the row it lies in, and listElement the rows
\* as the event finds them (a checkbox has changed its mark before its click
\* event is dispatched).  The listener reads nodeName, checked and value of
\* the target, never its type.
ClickListener(listElement, sel, target) ==
    IF target.nodeName # "INPUT" THEN sel
    ELSE IF target.checked
         THEN Push(sel, target.value)
         ELSE LET position == findItemIndex(listElement, target.row)
              IN  IF position.threw THEN sel
                  ELSE Splice1(sel, position.index)

\* ----------------------------------------------------------- the controller
\* Event targets of the plugin table: a checkbox, another input, a cell.
TableTargets ==
    {[nodeName |-> "INPUT", type |-> "checkbox", checked |-> c] : c \in BOOLEAN}
    \cup {[nodeName |-> "INPUT", type |-> "text", checked |-> FALSE],
          [nodeName |-> "TD", type |-> "", checked |-> FALSE]}

\* The test of _togglePluginState (line 79), negated.
IsCheckbox(target) == target.nodeName = "INPUT" /\ target.type = "checkbox"

\* A request as restClient returns it: a pending promise.  `increments` counts
\* the incrementLoader calls made for it.
NewRequest(method, enabled) ==
    [method |-> method, enabled |-> enabled, state |-> "pending", ran |-> FALSE,
     toast |-> "none", increments |-> 0]

\* Mutant of AfterCallbacks: incrementLoader is called in the then callback.
IncrementOnSuccessOnly(req) ==
    [req EXCEPT !.ran = TRUE,
                !.toast = IF req.state = "rejected" THEN "error"
                          ELSE IF req.method = "PATCH" THEN "success" ELSE "none",
                !.increments = IF req.state = "fulfilled" THEN @ + 1 ELSE @]

\* A settled request once its callbacks have run: then (lines 38-57, 88-90) if
\* fulfilled, catch (lines 59-61, 92-94) if rejected, and finally (lines
\* 63-65, 96-98) in both cases.
AfterCallbacks(req) ==
    [req EXCEPT !.ran = TRUE,
                !.toast = IF req.state = "rejected" THEN "error"
                          ELSE IF req.method = "PATCH" THEN "success" ELSE "none",
                !.increments = @ + 1]

\* Rows a response of GET /plugins carries (response.data.length).
ResponseRows == {0, 1}

NoCall == [op |-> "none", checkbox |-> FALSE, ret |-> "none", steps |-> 0, count |-> 0]
Called(op, checkbox, ret) ==
    [op |-> op, checkbox |-> checkbox, ret |-> ret, steps |-> stepsAnnounced,
     count |-> Len(requests)]

\* PluginListController: the constructor ends with a call of fetchPluginList
\* (line 134).
CtlInit ==
    /\ requests = <<NewRequest("GET", FALSE)>>
    /\ stepsAnnounced = 1
    /\ loaderIncrements = 0
    /\ pluginListLen = 0
    /\ ctlLast = NoCall

\* scope.fetchPluginList(filters).
FetchPluginList ==
    /\ Len(requests) < MaxRequests
    /\ requests' = Append(requests, NewRequest("GET", FALSE))
    /\ stepsAnnounced' = stepsAnnounced + 1
    /\ ctlLast' = Called("fetch", FALSE, "undefined")
    /\ UNCHANGED <<loaderIncrements, pluginListLen>>
    /\ UNCHANGED widgetVars

\* scope._togglePluginState(event), target being event.target.
TogglePluginState(target) ==
    /\ IsCheckbox(target) => Len(requests) < MaxRequests
    /\ IF ~IsCheckbox(target)
       THEN /\ ctlLast' = Called("toggle", FALSE, "false")
            /\ UNCHANGED <<requests, stepsAnnounced>>
       ELSE /\ stepsAnnounced' = stepsAnnounced + 1
            /\ requests' = Append(requests, NewRequest("PATCH", target.checked))
            /\ ctlLast' = Called("toggle", TRUE, "true")
    /\ UNCHANGED <<loaderIncrements, pluginListLen>>
    /\ UNCHANGED widgetVars

\* The REST client settles request i.
Settle(i) ==
    /\ i \in DOMAIN requests
    /\ requests[i].state = "pending"
    /\ \E outcome \in {"fulfilled", "rejected"} :
          requests' = [requests EXCEPT ![i].state = outcome]
    /\ ctlLast' = NoCall
    /\ UNCHANGED <<stepsAnnounced, loaderIncrements, pluginListLen>>
    /\ UNCHANGED widgetVars

\* The callbacks registered on request i run, in the order they were
\* registered.  The rows of a fulfilled GET are pushed to scope.pluginList.
RunCallbacks(i) ==
    /\ i \in DOMAIN requests
    /\ requests[i].state # "pending"
    /\ ~requests[i].ran
    /\ requests' = [requests EXCEPT ![i] = AfterCallbacks(@)]
    /\ loaderIncrements' =
          loaderIncrements + (requests'[i].increments - requests[i].increments)
    /\ \E rows \in ResponseRows :
          pluginListLen' = IF requests[i].method = "GET" /\ requests[i].state = "fulfilled"
                           THEN pluginListLen + rows
                           ELSE pluginListLen
    /\ ctlLast' = NoCall
    /\ UNCHANGED stepsAnnounced
    /\ UNCHANGED widgetVars

\* ----------------------------------------------------------------- history
\* ret is what the operation returned, where a claim speaks of it.
NoOp ==
    [op |-> "none", row |-> 0, sel |-> <<>>, children |-> <<>>, prev |-> Undefined,
     ret |-> "none"]
Did(op, row, prev) ==
    [op |-> op, row |-> row, sel |-> selected.elems, children |-> children,
     prev |-> prev, ret |-> "none"]

InSelection(sel, v) == \E k \in DOMAIN sel : sel[k] = v

\* ------------------------------------------------------------------ actions
Init ==
    /\ selected \in {Undefined} \cup {Arr(s) : s \in HostSelections}
    /\ selectedRef = 0
    /\ available \in {Undefined} \cup {Arr(c) : c \in Catalogs}
    /\ linkResult = "pending"
    /\ watchers = <<>>
    /\ clickListener = FALSE
    /\ children = <<>>
    /\ selLast = Undefined
    /\ avLast = Undefined
    /\ selDirty = FALSE
    /\ avDirty = FALSE
    /\ last = NoOp
    /\ expected = <<>>
    /\ reconciled = FALSE
    /\ ex = 0
    /\ tracking = FALSE
    /\ CtlInit

\* link(scope, element).  A registered watch is due once for its first call,
\* which gets no previous value.
Link ==
    /\ UNCHANGED ctlVars
    /\ linkResult = "pending"
    /\ last' = Did("link", 0, Undefined)
    /\ IF ~BindingsAreArrays(selected, available)
       THEN /\ linkResult' = "false"
            /\ UNCHANGED <<watchers, clickListener, selLast, avLast, selDirty, avDirty>>
       ELSE /\ linkResult' = "undefined"
            /\ clickListener' = TRUE
            /\ watchers' = <<"selected", "available">>
            /\ selLast' = Undefined
            /\ avLast' = Undefined
            /\ selDirty' = TRUE
            /\ avDirty' = TRUE
    /\ UNCHANGED <<selected, selectedRef, available, children, expected, reconciled,
                   ex, tracking>>

Watched(name) == \E k \in DOMAIN watchers : watchers[k] = name

\* The host binds `selected` to a fresh array.
HostSetSelected(s) ==
    /\ UNCHANGED ctlVars
    /\ linkResult # "pending"
    /\ ~selDirty /\ ~avDirty
    /\ selected' = Arr(s)
    /\ selectedRef' = 1 - selectedRef
    /\ selDirty' = (/\ Watched("selected")
                    /\ WatchDirty(selectedRef, selectedRef', selected.elems, s))
    /\ last' = Did("hostSetSelected", 0, Undefined)
    /\ ex' = 0
    /\ tracking' = FALSE
    /\ UNCHANGED <<available, linkResult, watchers, clickListener, children,
                   selLast, avLast, avDirty, expected, reconciled>>

\* The host binds `available` to a fresh array, or to a non-array.
HostSetAvailable(b) ==
    /\ UNCHANGED ctlVars
    /\ linkResult # "pending"
    /\ ~selDirty /\ ~avDirty
    /\ available' = b
    /\ avDirty' = (Watched("available") /\ (b.isArray \/ available.isArray))
    /\ last' = Did("hostSetAvailable", 0, Undefined)
    /\ ex' = 0
    /\ tracking' = FALSE
    /\ UNCHANGED <<selected, selectedRef, linkResult, watchers, clickListener, children,
                   selLast, avLast, selDirty, expected, reconciled>>

\* The `selected` watch calls its listener with (selected, selLast).
OnSelectedListUpdated ==
    /\ UNCHANGED ctlVars
    /\ Watched("selected")
    /\ selDirty
    /\ children' = onSelectedListUpdated(children, selected, selLast)
    /\ selLast' = selected
    /\ selDirty' = FALSE
    /\ last' = Did("onSelected", 0, selLast)
    /\ expected' = IF LengthChanged(selected, selLast)
                   THEN [i \in DOMAIN children |->
                           InSelection(selected.elems, children[i].value)]
                   ELSE expected
    /\ ex' = 0
    /\ tracking' = FALSE
    /\ UNCHANGED <<selected, selectedRef, available, linkResult, watchers,
                   clickListener, avLast, avDirty, reconciled>>

\* The `available` watch calls its listener with (available, avLast); the
\* watches are served in registration order.
OnAvailableListUpdated ==
    /\ UNCHANGED ctlVars
    /\ Watched("available")
    /\ avDirty /\ ~selDirty
    /\ children' = onAvailableListUpdated(children, available, avLast, selected)
    /\ avLast' = available
    /\ avDirty' = FALSE
    /\ last' = [Did("onAvailable", 0, avLast) EXCEPT
                    !.ret = onAvailableListUpdatedReturn(available, avLast)]
    /\ expected' = [i \in DOMAIN children' |->
                      InSelection(selected.elems, children'[i].value)]
    /\ reconciled' = TRUE
    /\ ex' = IF /\ ~reconciled /\ ~avLast.isArray
                /\ available.isArray /\ Len(available.elems) = 2
                /\ ItemValue(available.elems[1]) = "a"
                /\ ItemValue(available.elems[2]) = "b"
                /\ selected.elems = <<"b">>
             THEN 1 ELSE 0
    /\ tracking' = (/\ children' # <<>>
                    /\ NoDuplicates(selected.elems)
                    /\ \A k \in DOMAIN selected.elems :
                          \E i \in DOMAIN available.elems :
                              ItemValue(available.elems[i]) = selected.elems[k])
    /\ UNCHANGED <<selected, selectedRef, available, linkResult, watchers,
                   clickListener, selLast, selDirty>>

\* A user click on the checkbox of a row: the box changes its mark, then the
\* click listener runs.  The bound array is the one the watch last saw.
Click(row) ==
    /\ UNCHANGED ctlVars
    /\ clickListener
    /\ ~selDirty /\ ~avDirty
    /\ row \in DOMAIN children
    /\ children[row].checked \/ Len(selected.elems) < MaxSelLen
    /\ children' = [children EXCEPT ![row].checked = ~@]
    /\ selected' = Arr(ClickListener(children', selected.elems,
                                      RowTarget(children', row, "INPUT")))
    /\ selLast' = selected'
    /\ last' = Did(IF children[row].checked THEN "uncheck" ELSE "check", row, Undefined)
    /\ expected' = [expected EXCEPT ![row] = ~children[row].checked]
    /\ ex' = IF ex = 1 /\ ~children[row].checked /\ children[row].value = "a" THEN 2
             ELSE IF ex = 2 /\ children[row].checked /\ children[row].value = "b" THEN 3
             ELSE 0
    /\ selectedRef' = BoundArrayAfterClick(selectedRef)
    /\ selDirty' = (/\ Watched("selected")
                    /\ WatchDirty(selectedRef, selectedRef',
                                  selected.elems, selected'.elems))
    /\ UNCHANGED <<available, linkResult, watchers, clickListener, avLast,
                   avDirty, reconciled, tracking>>

\* A user click on a row outside its checkbox (the LI or its LABEL).
ClickOutside(row, nodeName) ==
    /\ UNCHANGED ctlVars
    /\ clickListener
    /\ ~selDirty /\ ~avDirty
    /\ row \in DOMAIN children
    /\ selected' = Arr(ClickListener(children, selected.elems,
                                      RowTarget(children, row, nodeName)))
    /\ selLast' = selected'
    /\ last' = Did("ignored", row, Undefined)
    /\ ex' = 0
    /\ UNCHANGED <<selectedRef, available, linkResult, watchers, clickListener,
                   children, avLast, selDirty, avDirty, expected, reconciled,
                   tracking>>

\* A click event whose target is an INPUT of another type that lies in a row
\* (a radio button or a text field): `checked` is its mark as the event finds
\* it.
ForeignTypes == {"radio", "text"}
ClickForeignInput(row, type, checked, value) ==
    /\ UNCHANGED ctlVars
    /\ clickListener
    /\ ~selDirty /\ ~avDirty
    /\ row \in DOMAIN children
    /\ ~checked \/ Len(selected.elems) < MaxSelLen
    /\ selected' = Arr(ClickListener(children, selected.elems,
                                      [nodeName |-> "INPUT", type |-> type,
                                       checked |-> checked, value |-> value,
                                       row |-> row]))
    /\ selLast' = selected'
    /\ last' = Did("foreign", row, Undefined)
    /\ ex' = 0
    /\ tracking' = FALSE
    /\ UNCHANGED <<selectedRef, available, linkResult, watchers, clickListener,
                   children, avLast, selDirty, avDirty, expected, reconciled>>

Next ==
    \/ Link
    \/ \E s \in HostSelections : HostSetSelected(s)
    \/ \E b \in {Undefined} \cup {Arr(c) : c \in Catalogs} : HostSetAvailable(b)
    \/ OnSelectedListUpdated
    \/ OnAvailableListUpdated
    \/ \E row \in 1..MaxRows : Click(row)
    \/ \E row \in 1..MaxRows, nodeName \in {"LI", "LABEL"} : ClickOutside(row, nodeName)

Spec == Init /\ [][Next]_vars

\* The widget with a host that never rebinds `selected`: catalog changes and
\* user clicks alone.
NextUI ==
    \/ Link
    \/ \E b \in {Undefined} \cup {Arr(c) : c \in Catalogs} : HostSetAvailable(b)
    \/ OnSelectedListUpdated
    \/ OnAvailableListUpdated
    \/ \E row \in 1..MaxRows : Click(row)
    \/ \E row \in 1..MaxRows, nodeName \in {"LI", "LABEL"} : ClickOutside(row, nodeName)

SpecUI == Init /\ [][NextUI]_vars

\* The widget with click events on any target, foreign inputs included.
NextEvents ==
    \/ Next
    \/ \E row \in 1..MaxRows, type \in ForeignTypes, checked \in BOOLEAN, value \in Values :
          ClickForeignInput(row, type, checked, value)

SpecEvents == Init /\ [][NextEvents]_vars

\* The controller alone, the directive not yet linked.  A request is settled
\* in the end, and the callbacks of a settled request run.
InitLoader ==
    /\ Init
    /\ selected = Undefined
    /\ available = Undefined

NextLoader ==
    \/ FetchPluginList
    \/ \E target \in TableTargets : TogglePluginState(target)
    \/ \E i \in 1..MaxRequests : Settle(i)
    \/ \E i \in 1..MaxRequests : RunCallbacks(i)

SpecLoader ==
    /\ InitLoader
    /\ [][NextLoader]_vars
    /\ \A i \in 1..MaxRequests : WF_vars(Settle(i)) /\ WF_vars(RunCallbacks(i))

\* ------------------------------------------------------------------- claims
\* s without its k-th entry (k 1-based).
RemoveAt(s, k) == SubSeq(s, 1, k - 1) \o SubSeq(s, k + 1, Len(s))

\* C1 (P5, remove-on-uncheck): a click that unchecks the row with value v
\* removes exactly one entry from SelectionSet, that entry equals v and sits
\* at the position of the row in catalog order; the other entries keep their
\* order.
C1_RemoveOnUncheck ==
    last.op = "uncheck" =>
        /\ last.row <= Len(last.sel)
        /\ last.sel[last.row] = children[last.row].value
        /\ selected.elems = RemoveAt(last.sel, last.row)

\* C2 (worked example): catalog [a, b] and SelectionSet [b]; after the first
\* catalog notification there are two rows, b checked and a unchecked; a check
\* on row a then makes SelectionSet [b, a]; an uncheck on row b then makes it
\* [a].
C2_WorkedExample ==
    /\ ex = 1 => /\ Len(children) = 2
                 /\ children[1].value = "a" /\ ~children[1].checked
                 /\ children[2].value = "b" /\ children[2].checked
    /\ ex = 2 => selected.elems = <<"b", "a">>
    /\ ex = 3 => selected.elems = <<"a">>

\* C3 (P2, no-rebuild-on-equal-length): a catalog notification with a previous
\* array of the same length as the current one leaves the rows as they were.
C3_NoRebuildOnEqualLength ==
    (/\ last.op = "onAvailable"
     /\ available.isArray /\ last.prev.isArray
     /\ Len(available.elems) = Len(last.prev.elems))
    => children = last.children

\* C4 (P3, check-state mirrors selection): after a selection notification with
\* no previous array or with another length, every row is checked exactly if
\* its value is in the new SelectionSet.
C4_MarksMirrorSelection ==
    (/\ last.op = "onSelected"
     /\ (~last.prev.isArray \/ Len(selected.elems) # Len(last.prev.elems)))
    => \A i \in DOMAIN children :
          children[i].checked <=> InSelection(selected.elems, children[i].value)

\* C5 (P1, rebuild-on-length-change): after a catalog notification whose
\* current and previous arrays differ in length there are exactly len(current)
\* rows, the i-th carrying the value of the i-th item, whatever rows there
\* were before.
C5_RebuildOnLengthChange ==
    (/\ last.op = "onAvailable"
     /\ available.isArray /\ last.prev.isArray
     /\ Len(available.elems) # Len(last.prev.elems))
    => /\ Len(children) = Len(available.elems)
       /\ \A i \in DOMAIN children : children[i].value = ItemValue(available.elems[i])

\* C5's case: a rebuild to two rows over a surface that held one row.
C5_Witness ==
    /\ last.op = "onAvailable"
    /\ available.isArray /\ last.prev.isArray
    /\ Len(available.elems) = 2 /\ Len(last.prev.elems) = 1
    /\ Len(last.children) = 1
    /\ Len(children) = 2

\* C6 (P4, append-on-check): a click that checks an unchecked row with value
\* v leaves SelectionSet equal to what it was, followed by v.
C6_AppendOnCheck ==
    last.op = "check" =>
        selected.elems = last.sel \o <<children[last.row].value>>

\* C6's case: a check on a row while SelectionSet holds another value.
C6_Witness ==
    /\ last.op = "check"
    /\ last.sel # <<>>
    /\ ~InSelection(last.sel, children[last.row].value)
    /\ children[last.row].checked

\* C7 (render/catalog correspondence): once a catalog notification has been
\* handled and none is due, the rows correspond one to one to the entries of
\* the current catalog, row i built from item i.
C7_RowsMatchCatalog ==
    (reconciled /\ ~avDirty) =>
        /\ Len(children) = Len(available.elems)
        /\ \A i \in DOMAIN children : children[i].value = ItemValue(available.elems[i])

\* C8 (checked flag): a row is checked exactly if the last pass that touched
\* it (a rebuild or a re-marking) found its value in SelectionSet, or the
\* last user toggle on it since that pass checked it.
C8_CheckedFlag ==
    \A i \in DOMAIN children : children[i].checked = expected[i]

\* C9 (no duplicates through the UI): with unique catalog values and a
\* duplicate free initial SelectionSet, catalog rebuilds and user clicks alone
\* never put a value into SelectionSet twice.
C9_NoDuplicates == NoDuplicates(selected.elems)

\* C10 (malformed bindings): when `selected` or `available` is no array at
\* link time, link returns false and leaves nothing behind: no watch, no
\* click listener, no row, and no later step of the widget.
C10_MalformedBindingsRefused ==
    /\ (last.op = "link" /\ ~(selected.isArray /\ available.isArray))
         => linkResult = "false"
    /\ linkResult = "false" =>
         /\ watchers = <<>>
         /\ ~clickListener
         /\ children = <<>>
         /\ ~selDirty /\ ~avDirty
         /\ last.op \in {"link", "hostSetSelected", "hostSetAvailable"}

\* C10's case: link has refused, and the host has since bound both
\* collections to non-empty arrays.
C10_Witness ==
    /\ linkResult = "false"
    /\ last.op \in {"hostSetSelected", "hostSetAvailable"}
    /\ selected.isArray /\ selected.elems # <<>>
    /\ available.isArray /\ available.elems # <<>>

\* C11 (non-checkbox events are ignored): a click whose target is no checkbox
\* (an element that is no INPUT, or an INPUT of another type) leaves
\* SelectionSet, the rows and every checked flag as they were.
C11_NonCheckboxIgnored ==
    last.op \in {"ignored", "foreign"} =>
        /\ selected.elems = last.sel
        /\ children = last.children

\* The last step was a catalog notification that rebuilt: the current catalog
\* is a non-empty array and there was no previous array or one of another
\* length.
RebuiltLast ==
    /\ last.op = "onAvailable"
    /\ available.isArray /\ Len(available.elems) > 0
    /\ (~last.prev.isArray \/ Len(available.elems) # Len(last.prev.elems))

\* C12 (pre-check on rebuild): when the catalog handler rebuilds, each row it
\* creates is checked exactly if the value of its item, a bare string or an
\* explicit pair, occurs in SelectionSet as it is at that time.
C12_PreCheckOnRebuild ==
    RebuiltLast =>
        /\ Len(children) = Len(available.elems)
        /\ \A i \in DOMAIN children :
              children[i].checked <=>
                  InSelection(selected.elems, ItemValue(available.elems[i]))

\* C12's case: a rebuild from a bare string and an explicit pair, the first
\* row checked and the second not.
C12_Witness ==
    /\ RebuiltLast
    /\ Len(children) = 2
    /\ available.elems[1].kind = "string" /\ available.elems[2].kind = "object"
    /\ children[1].checked /\ ~children[2].checked
    /\ selected.elems # <<>>

\* C13 (empty or invalid catalog): after a catalog notification whose current
\* value is an empty array or no array there is no row, whatever rows there
\* were before, and the handler has returned false.
C13_EmptyOrInvalidCatalog ==
    (/\ last.op = "onAvailable"
     /\ (~available.isArray \/ Len(available.elems) = 0))
    => /\ children = <<>>
       /\ last.ret = "false"

\* C13's case: the catalog became a non-array while two rows were shown.
C13_Witness ==
    /\ last.op = "onAvailable"
    /\ ~available.isArray
    /\ Len(last.children) = 2
    /\ children = <<>>

\* C14 (selection change never rebuilds): a selection notification leaves the
\* number of rows, their order and the value each carries as they were; only
\* checked flags may differ.
C14_SelectionChangeKeepsRows ==
    last.op = "onSelected" =>
        /\ Len(children) = Len(last.children)
        /\ \A i \in DOMAIN children :
              [children[i] EXCEPT !.checked = TRUE] =
                  [last.children[i] EXCEPT !.checked = TRUE]

\* C14's case: a selection notification that checked one row of two and left
\* the other unchecked.
C14_Witness ==
    /\ last.op = "onSelected"
    /\ Len(children) = 2
    /\ children # last.children
    /\ \E i \in DOMAIN children : ~children[i].checked

\* C18 (equal-length selection change is a no-op): a selection notification
\* with a previous array of the same length as the current one leaves every
\* checked flag as it was, even when the contents differ.
C18_EqualLengthSelectionNoOp ==
    (/\ last.op = "onSelected"
     /\ last.prev.isArray
     /\ Len(selected.elems) = Len(last.prev.elems))
    => children = last.children

\* C18's case: the selection went from one value to another of a row that is
\* not checked, and the row stays unchecked.
C18_Witness ==
    /\ last.op = "onSelected"
    /\ last.prev.isArray
    /\ Len(selected.elems) = 1 /\ Len(last.prev.elems) = 1
    /\ selected.elems # last.prev.elems
    /\ \E i \in DOMAIN children :
          children[i].value = selected.elems[1] /\ ~children[i].checked

\* C15 (widget mutation rights): a step of the widget leaves the catalog as it
\* is and scope.selected bound to the same array; the contents of SelectionSet
\* change only in a user toggle, by one append or one removal at a position.
WidgetOps == {"link", "onSelected", "onAvailable", "check", "uncheck", "ignored"}
C15_WidgetMutationRights ==
    [][last'.op \in WidgetOps =>
          /\ available' = available
          /\ selectedRef' = selectedRef
          /\ last'.op \notin {"check", "uncheck"} => selected' = selected
          /\ selected' # selected =>
                \/ \E v \in Values : selected'.elems = Append(selected.elems, v)
                \/ \E k \in DOMAIN selected.elems :
                      selected'.elems = RemoveAt(selected.elems, k)]_vars

\* C15's case: a check has appended to the array the host bound after link.
C15_Witness ==
    /\ last.op = "check"
    /\ selectedRef = 1
    /\ Len(selected.elems) = Len(last.sel) + 1

\* C16 (P6, idempotent clear): clearing an empty surface leaves it empty, and
\* clearing a surface twice gives the empty surface that clearing it once
\* gives.
C16_IdempotentClear ==
    /\ clearItemElements(<<>>) = <<>>
    /\ clearItemElements(children) = <<>>
    /\ clearItemElements(clearItemElements(children)) = clearItemElements(children)
    /\ (last.op = "onAvailable" /\ last.children = <<>> /\ ~RebuiltLast)
          => children = <<>>

\* C16's case: a catalog notification has cleared a surface that the one
\* before it had left empty.
C16_Witness ==
    /\ last.op = "onAvailable"
    /\ last.prev.isArray
    /\ last.children = <<>>
    /\ children = <<>>

\* C17 (selection tracks check marks): after a rebuild in step with the
\* selection and any number of user clicks on rows, with no outside change in
\* between, the values in SelectionSet are the values of the checked rows.
C17_SelectionTracksMarks ==
    tracking =>
        {selected.elems[k] : k \in DOMAIN selected.elems} =
            {children[i].value : i \in {j \in DOMAIN children : children[j].checked}}

\* C19 (no update cycle): a user toggle makes neither listener due, and it
\* leaves the rows as they were but for the checked flag of the clicked row.
C19_NoUpdateCycle ==
    last.op \in {"check", "uncheck"} =>
        /\ ~selDirty /\ ~avDirty
        /\ Len(children) = Len(last.children)
        /\ \A i \in DOMAIN children :
              IF i = last.row
              THEN [children[i] EXCEPT !.checked = TRUE] =
                       [last.children[i] EXCEPT !.checked = TRUE]
              ELSE children[i] = last.children[i]

\* C19's case: a check on one row of two while the other row is checked.
C19_Witness ==
    /\ last.op = "check"
    /\ Len(children) = 2
    /\ \A i \in DOMAIN children : children[i].checked
    /\ selected.elems # last.sel

\* C20 (loader balance): every call of fetchPluginList, and every call of
\* _togglePluginState on a checkbox, announces exactly one loader step and is
\* in the end followed by exactly one incrementLoader for its request, whether
\* the request is fulfilled or rejected and however the outstanding requests
\* interleave; _togglePluginState on another target announces no step and
\* issues no request.
LoaderCallsBalanced ==
    /\ stepsAnnounced = Len(requests)
    /\ \A i \in DOMAIN requests :
          /\ requests[i].increments <= 1
          /\ requests[i].ran <=> requests[i].increments = 1
    /\ loaderIncrements = Cardinality({i \in DOMAIN requests : requests[i].ran})
    /\ (ctlLast.op = "fetch" \/ (ctlLast.op = "toggle" /\ ctlLast.checkbox))
          => /\ stepsAnnounced = ctlLast.steps + 1
             /\ Len(requests) = ctlLast.count + 1
    /\ (ctlLast.op = "toggle" /\ ~ctlLast.checkbox)
          => /\ stepsAnnounced = ctlLast.steps
             /\ Len(requests) = ctlLast.count
             /\ ctlLast.ret = "false"
C20_LoaderBalance ==
    /\ []LoaderCallsBalanced
    /\ \A i \in 1..MaxRequests :
          [](Len(requests) >= i => <>(Len(requests) >= i /\ requests[i].increments = 1))

\* C20's case: three requests, a fulfilled and a rejected one among them, each
\* with its one incrementLoader, after a call on a target that is no checkbox.
C20_Witness ==
    /\ Len(requests) = 3
    /\ \A i \in DOMAIN requests : requests[i].increments = 1
    /\ \E i, j \in DOMAIN requests :
          /\ requests[i].state = "fulfilled" /\ requests[i].method = "PATCH"
          /\ requests[j].state = "rejected"
    /\ loaderIncrements = 3
    /\ ctlLast.op = "toggle" /\ ~ctlLast.checkbox

====
